---- MODULE Spec2Model ----
(***************************************************************************)
(* Model of the WebTerminal session controller (static/app.js): the async  *)
(* startup sequence, the WebSocket lifecycle handlers, the terminal input  *)
(* and interrupt handlers, the status badge, the reconnect dialog and the  *)
(* theme controller.                                                       *)
(*                                                                         *)
(* JavaScript is run-to-completion: one action is one handler (or one      *)
(* synchronous step of init, which no event can interleave with).          *)
(* The browser delivers an error on a socket in the same task as the       *)
(* close that follows it; inTask names the socket between the two.         *)
(* The page markup (badge, modal, reconnect button, title, shell-info,     *)
(* control buttons) is taken to exist, as the handlers assume.             *)
(***************************************************************************)
EXTENDS Integers, Sequences, FiniteSets, TLC

VARIABLES
    endpoint,      \* what GET /api/shell-info will answer (environment)
    pc,            \* position of the async init() / fetchShellInfo()
    shellInfo,     \* this.shellInfo
    title,         \* .header-title textContent
    terminal,      \* this.terminal # null
    onDataReg,     \* terminal.onData handler registered
    listeners,     \* setupEventListeners has registered window/document listeners
    themeCtl,      \* setupThemeController has registered the theme click handlers
    display,       \* text written to the terminal since the last clear()
    termTheme,     \* this.terminal.options.theme
    storedTheme,   \* localStorage 'terminal-theme'
    dataTheme,     \* documentElement data-theme attribute
    websocket,     \* this.websocket: index of the current socket, 0 = null
    readyState,    \* readyState of every WebSocket created so far, by index
    opened,        \* sockets that have delivered their open event
    inTask,        \* socket whose error handler ran and whose close handler is next
    connected,     \* this.connected
    badge,         \* .badge content
    modalOpen,     \* reconnect_modal is shown
    btnHandlers,   \* click listeners on the element with id reconnect-btn
    sent,          \* every websocket.send call so far: [sock, data]
    nInputs,       \* number of input events (data, interrupt) so far
    nText,         \* length of the inbound text delivered so far
    lastEvent,     \* the event delivered last: [ev, sock, data, threw]
    timers         \* delays of the pending setTimeout reconnects (auto-retry variant)

vars == <<endpoint, pc, shellInfo, title, terminal, onDataReg, listeners, themeCtl,
          display, termTheme, storedTheme, dataTheme, websocket, readyState,
          opened, inTask, connected, badge, modalOpen, btnHandlers, sent,
          nInputs, nText, lastEvent, timers>>

\* ---------------------------------------------------------------- bounds
MaxSockets == 3
\* payload units in either direction: elements of inbound text plus input events
MaxTraffic == 3

\* ------------------------------------------------------------- constants
LF == "\n"
CR == "\r"
ETX == "\\u0003"
NULL == "null"
\* values of fields not yet assigned, and the JSON value null
UNDEFINED == [undefined |-> TRUE]
NullBody == [null |-> TRUE]

CONNECTING == "CONNECTING"
OPEN == "OPEN"
CLOSING == "CLOSING"
CLOSED == "CLOSED"

\* Inbound text is made of line feeds, carriage returns and runs of other
\* characters; a run is kept as one element.
Chars == {"hello", CR, LF}
Hello == <<"hello", LF>>
\* the messages of n elements
Messages(n) == [1..n -> Chars]
Data == {"x"}

\* ------------------------------------------------------------ shell info
DefaultShellInfo == [shell |-> "bash", args |-> <<"-i">>, full_command |-> "bash -i"]

\* JSON bodies the metadata endpoint can answer with: a well-formed
\* description, an object without args, and the JSON value null.
GoodBody == [shell |-> "zsh", args |-> <<"-l">>, full_command |-> "zsh -l"]
NoArgsBody == [shell |-> "zsh"]
Bodies == {GoodBody, NoArgsBody, NullBody}

\* Outcomes of the request: fetch() rejects, response.json() rejects, or
\* response.json() yields a body.
Rejected == [kind |-> "rejected"]
Unparsable == [kind |-> "unparsable"]
Json(b) == [kind |-> "json", body |-> b]
Responses == {Rejected, Unparsable} \cup {Json(b) : b \in Bodies}

InitialTitle == <<"Web Terminal">>
TitleFor(info) == <<"Web Terminal - ", info.shell>>

\* ---------------------------------------------------------------- themes
InitialTermTheme ==
    [background |-> "#1e1e1e", foreground |-> "#ffffff", cursor |-> "#ffffff",
     selection |-> "rgba(255, 255, 255, 0.3)",
     black |-> "#000000", red |-> "#cd3131", green |-> "#0dbc79",
     yellow |-> "#e5e510", blue |-> "#2472c8", magenta |-> "#bc3fbc",
     cyan |-> "#11a8cd", white |-> "#e5e5e5",
     brightBlack |-> "#666666", brightRed |-> "#f14c4c",
     brightGreen |-> "#23d18b", brightYellow |-> "#f5f543",
     brightBlue |-> "#3b8eea", brightMagenta |-> "#d670d6",
     brightCyan |-> "#29b8db", brightWhite |-> "#e5e5e5"]

KnownThemes == {"dark", "light", "cyberpunk", "synthwave"}

themes ==
    [t \in KnownThemes |->
        CASE t = "dark" ->
               [background |-> "#1f2937", foreground |-> "#f9fafb", cursor |-> "#3b82f6"]
          [] t = "light" ->
               [background |-> "#ffffff", foreground |-> "#111827", cursor |-> "#3b82f6"]
          [] t = "cyberpunk" ->
               [background |-> "#0a0a0a", foreground |-> "#00ff00", cursor |-> "#ff00ff"]
          [] t = "synthwave" ->
               [background |-> "#1a1a2e", foreground |-> "#ff6b9d", cursor |-> "#00d2ff"]]

\* data-theme values of the .theme-controller elements of the page; the
\* markup may offer a theme the terminal has no colors for.
ControllerThemes == KnownThemes \cup {"retro"}

\* Names that every object literal answers to without owning them
\* (constructor, toString, ...): themes[name] is then an inherited function,
\* which is truthy and has no background, foreground or cursor.
InheritedKeys == {"constructor"}
NoColor == "undefined"
InheritedValue == [background |-> NoColor, foreground |-> NoColor, cursor |-> NoColor]

\* themes[theme]
ThemesLookup(theme) ==
    IF theme \in KnownThemes THEN themes[theme]
    ELSE IF theme \in InheritedKeys THEN InheritedValue
    ELSE UNDEFINED

\* updateTerminalTheme(theme), for a terminal that exists
UpdateTerminalTheme(cur, theme) ==
    LET found == ThemesLookup(theme)
        selectedTheme == IF found = UNDEFINED THEN themes["dark"] ELSE found
    IN [cur EXCEPT !.background = selectedTheme.background,
                   !.foreground = selectedTheme.foreground,
                   !.cursor = selectedTheme.cursor]

\* -------------------------------------------------------------- terminal
\* terminal.writeln(text): the text followed by \r\n
Writeln(buf, text) == buf \o text \o <<CR, LF>>

WelcomeBanner == <<"Welcome to Web Terminal">>
ConnectingBanner == <<"Connecting to server...">>
ConnectedBanner == <<"Connected to terminal server">>
ClosedBanner == <<CR, LF, LF, "Connection closed.">>
ErrorBanner == <<CR, LF, LF, "Connection error occurred">>
ReconnectBanner == <<"Attempting to reconnect...">>

\* replace without the g flag: only the first line feed is rewritten
ReplaceFirstLF(s) ==
    IF \E i \in 1..Len(s) : s[i] = LF
    THEN LET i == CHOOSE j \in 1..Len(s) : s[j] = LF /\ \A k \in 1..(j - 1) : s[k] # LF
         IN SubSeq(s, 1, i - 1) \o <<CR, LF>> \o SubSeq(s, i + 1, Len(s))
    ELSE s

\* event.data.replace(/\n/g, '\r\n')
RECURSIVE ReplaceLF(_)
ReplaceLF(s) ==
    IF s = <<>> THEN <<>>
    ELSE (IF Head(s) = LF THEN <<CR, LF>> ELSE <<Head(s)>>) \o ReplaceLF(Tail(s))

UpdateConnectionStatusAlwaysConnected(c) == "Connected"

\* updateConnectionStatus(): the badge content for a value of this.connected
UpdateConnectionStatus(c) == IF c THEN "Connected" ELSE "Disconnected"

\* threw: the handler of the event ended with an uncaught exception
NoEvent == [ev |-> "none", sock |-> 0, data |-> <<>>, threw |-> FALSE]
Event(e, s, d) == [ev |-> e, sock |-> s, data |-> d, threw |-> FALSE]

Sockets == 1..Len(readyState)

\* ------------------------------------------------------------------ Init
\* The page at construction, for the given answers of the endpoint and
\* the given contents of localStorage.
InitWith(responses, stored) ==
    /\ endpoint \in responses
    /\ storedTheme \in stored
    /\ pc = "fetch"
    /\ shellInfo = UNDEFINED
    /\ title = InitialTitle
    /\ terminal = FALSE
    /\ onDataReg = FALSE
    /\ listeners = FALSE
    /\ themeCtl = FALSE
    /\ display = <<>>
    /\ termTheme = UNDEFINED
    /\ dataTheme = NULL
    /\ websocket = 0
    /\ readyState = <<>>
    /\ opened = {}
    /\ inTask = 0
    /\ connected = FALSE
    /\ badge = "initial"
    /\ modalOpen = FALSE
    /\ btnHandlers = 0
    /\ sent = <<>>
    /\ nInputs = 0
    /\ nText = 0
    /\ lastEvent = NoEvent
    /\ timers = <<>>

Init == InitWith({Json(GoodBody)}, {NULL})

\* --------------------------------------------------------------- startup
\* The try block of fetchShellInfo after response.json() produced body:
\* this.shellInfo is assigned first, then the title and the shell-info
\* element are filled in; reading .shell of null or .args of an object
\* without args throws.
ApplyBody(body, t) ==
    IF body = NullBody
    THEN [shellInfo |-> NullBody, title |-> t, threw |-> TRUE]
    ELSE IF "args" \notin DOMAIN body
    THEN [shellInfo |-> body, title |-> TitleFor(body), threw |-> TRUE]
    ELSE [shellInfo |-> body, title |-> TitleFor(body), threw |-> FALSE]

\* a catch block that only logs the failure
FetchCatchLogOnly(r) == [r EXCEPT !.threw = FALSE]

\* The catch block of fetchShellInfo
FetchCatch(r) ==
    IF r.threw THEN [r EXCEPT !.shellInfo = DefaultShellInfo, !.threw = FALSE] ELSE r

\* await fetch('/api/shell-info') settles: fulfilled, or rejected
FetchSettle ==
    /\ pc = "fetch"
    /\ LET ok == endpoint # Rejected
       IN IF ok
         THEN /\ pc' = "json"
              /\ UNCHANGED <<endpoint, timers, shellInfo, title, lastEvent>>
         ELSE LET r == FetchCatch([shellInfo |-> shellInfo, title |-> title, threw |-> TRUE])
              IN /\ shellInfo' = r.shellInfo
                 /\ title' = r.title
                 /\ pc' = IF r.threw THEN "aborted" ELSE "setupTerminal"
                 /\ lastEvent' = Event("fetchFailed", 0, <<>>)
    /\ UNCHANGED <<endpoint, timers, terminal, onDataReg, listeners, themeCtl, display, termTheme,
                   storedTheme, dataTheme, websocket, readyState, opened, inTask,
                   connected, badge, modalOpen, btnHandlers, sent, nInputs, nText>>

\* await response.json() settles: rejected (unparsable body), or a JSON value
JsonSettle ==
    /\ pc = "json"
    /\ LET parsed == endpoint.kind = "json"
           try == IF parsed THEN ApplyBody(endpoint.body, title)
                  ELSE [shellInfo |-> shellInfo, title |-> title, threw |-> TRUE]
           r == FetchCatch(try)
       IN /\ shellInfo' = r.shellInfo
          /\ title' = r.title
          /\ pc' = IF r.threw THEN "aborted" ELSE "setupTerminal"
          /\ lastEvent' = Event(IF try.threw THEN "fetchFailed" ELSE "fetchOk", 0, <<>>)
    /\ UNCHANGED <<endpoint, timers, terminal, onDataReg, listeners, themeCtl, display, termTheme,
                   storedTheme, dataTheme, websocket, readyState, opened, inTask,
                   connected, badge, modalOpen, btnHandlers, sent, nInputs, nText>>

\* setupTerminal that opens the transport itself, before the terminal and
\* its input handler exist
SetupTerminalConnectsFirst ==
    /\ pc = "setupTerminal"
    /\ readyState' = Append(readyState, CONNECTING)
    /\ websocket' = Len(readyState')
    /\ terminal' = TRUE
    /\ termTheme' = InitialTermTheme
    /\ onDataReg' = TRUE
    /\ display' = Writeln(Writeln(display, WelcomeBanner), ConnectingBanner)
    /\ pc' = "connectWebSocket"
    /\ UNCHANGED <<endpoint, timers, shellInfo, title, listeners, themeCtl, storedTheme, dataTheme,
                   opened, inTask, connected, badge,
                   modalOpen, btnHandlers, sent, nInputs, nText, lastEvent>>

\* setupTerminal()
SetupTerminal ==
    /\ pc = "setupTerminal"
    /\ terminal' = TRUE
    /\ termTheme' = InitialTermTheme
    /\ onDataReg' = TRUE
    /\ display' = Writeln(Writeln(display, WelcomeBanner), ConnectingBanner)
    /\ pc' = "connectWebSocket"
    /\ UNCHANGED <<endpoint, timers, shellInfo, title, listeners, themeCtl, storedTheme, dataTheme,
                   websocket, readyState, opened, inTask, connected, badge,
                   modalOpen, btnHandlers, sent, nInputs, nText, lastEvent>>

\* connectWebSocket(): new WebSocket(wsUrl), in state CONNECTING, becomes
\* this.websocket; the four handlers are assigned to it.
ConnectWebSocket(rs) == Append(rs, CONNECTING)

InitConnectWebSocket ==
    /\ pc = "connectWebSocket"
    /\ readyState' = ConnectWebSocket(readyState)
    /\ websocket' = Len(readyState')
    /\ pc' = "setupEventListeners"
    /\ UNCHANGED <<endpoint, timers, shellInfo, title, terminal, onDataReg, listeners, themeCtl,
                   display, termTheme, storedTheme, dataTheme, opened, inTask,
                   connected, badge, modalOpen, btnHandlers, sent, nInputs, nText,
                   lastEvent>>

\* setupEventListeners()
SetupEventListeners ==
    /\ pc = "setupEventListeners"
    /\ listeners' = TRUE
    /\ pc' = "setupThemeController"
    /\ UNCHANGED <<endpoint, timers, shellInfo, title, terminal, onDataReg, themeCtl, display,
                   termTheme, storedTheme, dataTheme, websocket, readyState,
                   opened, inTask, connected, badge, modalOpen, btnHandlers,
                   sent, nInputs, nText, lastEvent>>

\* setupThemeController(): registers the click handlers, then loads the
\* saved theme (default 'dark').
SetupThemeController ==
    /\ pc = "setupThemeController"
    /\ themeCtl' = TRUE
    /\ LET savedTheme == IF storedTheme = NULL THEN "dark" ELSE storedTheme
       IN /\ dataTheme' = savedTheme
          /\ termTheme' = IF terminal THEN UpdateTerminalTheme(termTheme, savedTheme)
                          ELSE termTheme
    /\ pc' = "updateConnectionStatus"
    /\ UNCHANGED <<endpoint, timers, shellInfo, title, terminal, onDataReg, listeners, display,
                   storedTheme, websocket, readyState, opened, inTask, connected,
                   badge, modalOpen, btnHandlers, sent, nInputs, nText, lastEvent>>

\* the last statement of init(): updateConnectionStatus()
InitUpdateConnectionStatus ==
    /\ pc = "updateConnectionStatus"
    /\ badge' = UpdateConnectionStatus(connected)
    /\ pc' = "ready"
    /\ lastEvent' = Event("init", websocket, <<>>)
    /\ UNCHANGED <<endpoint, timers, shellInfo, title, terminal, onDataReg, listeners, themeCtl,
                   display, termTheme, storedTheme, dataTheme, websocket,
                   readyState, opened, inTask, connected, modalOpen, btnHandlers,
                   sent, nInputs, nText>>

\* ------------------------------------------------------ transport events
\* Handlers run only after init() has finished and never in the middle of
\* the error/close pair of one socket.
Idle == pc = "ready" /\ inTask = 0

OnOpenNoClear(s) ==
    /\ Idle
    /\ readyState[s] = CONNECTING
    /\ readyState' = [readyState EXCEPT ![s] = OPEN]
    /\ opened' = opened \cup {s}
    /\ display' = Writeln(display, ConnectedBanner)
    /\ connected' = TRUE
    /\ badge' = UpdateConnectionStatus(connected')
    /\ lastEvent' = Event("open", s, <<>>)
    /\ UNCHANGED <<endpoint, timers, pc, shellInfo, title, terminal, onDataReg, listeners, themeCtl,
                   termTheme, storedTheme, dataTheme, websocket, inTask, modalOpen,
                   btnHandlers, sent, nInputs, nText>>

\* websocket.onopen
OnOpen(s) ==
    /\ Idle
    /\ readyState[s] = CONNECTING
    /\ readyState' = [readyState EXCEPT ![s] = OPEN]
    /\ opened' = opened \cup {s}
    /\ display' = Writeln(<<>>, ConnectedBanner)
    /\ connected' = TRUE
    /\ badge' = UpdateConnectionStatus(connected')
    /\ lastEvent' = Event("open", s, <<>>)
    /\ UNCHANGED <<endpoint, timers, pc, shellInfo, title, terminal, onDataReg, listeners, themeCtl,
                   termTheme, storedTheme, dataTheme, websocket, inTask, modalOpen,
                   btnHandlers, sent, nInputs, nText>>

\* websocket.onmessage
OnMessage(s, m) ==
    /\ Idle
    /\ readyState[s] = OPEN
    /\ nText + nInputs + Len(m) <= MaxTraffic
    /\ nText' = nText + Len(m)
    /\ display' = display \o ReplaceLF(m)
    /\ lastEvent' = Event("message", s, m)
    /\ UNCHANGED <<endpoint, timers, pc, shellInfo, title, terminal, onDataReg, listeners, themeCtl,
                   termTheme, storedTheme, dataTheme, websocket, readyState, opened,
                   inTask, connected, badge, modalOpen, btnHandlers, sent, nInputs>>

\* The closing handshake of an open socket starts (the server sent a close
\* frame): readyState becomes CLOSING and no handler runs.
ClosingHandshake(s) ==
    /\ Idle
    /\ readyState[s] = OPEN
    /\ readyState' = [readyState EXCEPT ![s] = CLOSING]
    /\ lastEvent' = Event("closing", s, <<>>)
    /\ UNCHANGED <<endpoint, timers, pc, shellInfo, title, terminal, onDataReg, listeners, themeCtl,
                   display, termTheme, storedTheme, dataTheme, websocket, opened,
                   inTask, connected, badge, modalOpen, btnHandlers, sent, nInputs,
                   nText>>

\* showReconnectDialog adding its listener to the button already in the
\* page, without replacing it by a clone
ShowReconnectDialogNoClone(n) == n + 1

\* showReconnectDialog(): the reconnect button is replaced by a clone, which
\* carries no listeners, and one click listener is added to the clone.
\* n is the number of listeners on the button being replaced.
ShowReconnectDialog(n) == 0 + 1

\* onclose that also retries on its own, calling connectWebSocket()
OnCloseAutoRetry(s) ==
    /\ pc = "ready"
    /\ \/ inTask = s
       \/ inTask = 0 /\ readyState[s] # CLOSED
    /\ readyState' = ConnectWebSocket([readyState EXCEPT ![s] = CLOSED])
    /\ websocket' = Len(readyState')
    /\ inTask' = 0
    /\ display' = Writeln(display, ClosedBanner)
    /\ connected' = FALSE
    /\ badge' = UpdateConnectionStatus(connected')
    /\ btnHandlers' = ShowReconnectDialog(btnHandlers)
    /\ modalOpen' = TRUE
    /\ lastEvent' = Event("close", s, <<>>)
    /\ UNCHANGED <<endpoint, timers, pc, shellInfo, title, terminal, onDataReg, listeners,
                   themeCtl, termTheme, storedTheme, dataTheme, opened, sent,
                   nInputs, nText>>

OnCloseKeepsFlag(s) ==
    /\ pc = "ready"
    /\ \/ inTask = s
       \/ inTask = 0 /\ readyState[s] # CLOSED
    /\ readyState' = [readyState EXCEPT ![s] = CLOSED]
    /\ inTask' = 0
    /\ display' = Writeln(display, ClosedBanner)
    /\ badge' = UpdateConnectionStatus(connected)
    /\ btnHandlers' = ShowReconnectDialog(btnHandlers)
    /\ modalOpen' = TRUE
    /\ lastEvent' = Event("close", s, <<>>)
    /\ UNCHANGED <<endpoint, timers, pc, shellInfo, title, terminal, onDataReg, listeners,
                   themeCtl, termTheme, storedTheme, dataTheme, websocket, opened, sent,
                   nInputs, nText, connected>>

\* websocket.onclose, for a close on its own or for the close that follows
\* an error in the same task
OnClose(s) ==
    /\ pc = "ready"
    /\ \/ inTask = s
       \/ inTask = 0 /\ readyState[s] # CLOSED
    /\ readyState' = [readyState EXCEPT ![s] = CLOSED]
    /\ inTask' = 0
    /\ display' = Writeln(display, ClosedBanner)
    /\ connected' = FALSE
    /\ badge' = UpdateConnectionStatus(connected')
    /\ btnHandlers' = ShowReconnectDialog(btnHandlers)
    /\ modalOpen' = TRUE
    /\ lastEvent' = Event("close", s, <<>>)
    /\ UNCHANGED <<endpoint, timers, pc, shellInfo, title, terminal, onDataReg, listeners, themeCtl,
                   termTheme, storedTheme, dataTheme, websocket, opened, sent,
                   nInputs, nText>>

\* onerror that also marks the session disconnected and updates the badge
OnErrorMarksClosed(s) ==
    /\ Idle
    /\ readyState[s] # CLOSED
    /\ readyState' = [readyState EXCEPT ![s] = CLOSED]
    /\ inTask' = s
    /\ display' = Writeln(display, ErrorBanner)
    /\ connected' = FALSE
    /\ badge' = UpdateConnectionStatus(connected')
    /\ lastEvent' = Event("error", s, <<>>)
    /\ UNCHANGED <<endpoint, timers, pc, shellInfo, title, terminal, onDataReg, listeners,
                   themeCtl, termTheme, storedTheme, dataTheme, websocket, opened,
                   modalOpen, btnHandlers, sent, nInputs, nText>>

\* websocket.onerror: the browser has failed the connection, the socket is
\* CLOSED when the handler runs and its close event follows.
OnError(s) ==
    /\ Idle
    /\ readyState[s] # CLOSED
    /\ readyState' = [readyState EXCEPT ![s] = CLOSED]
    /\ inTask' = s
    /\ display' = Writeln(display, ErrorBanner)
    /\ lastEvent' = Event("error", s, <<>>)
    /\ UNCHANGED <<endpoint, timers, pc, shellInfo, title, terminal, onDataReg, listeners, themeCtl,
                   termTheme, storedTheme, dataTheme, websocket, opened, connected,
                   badge, modalOpen, btnHandlers, sent, nInputs, nText>>

\* ---------------------------------------------------------- user events
\* websocket.send(data) throws on null (no socket yet) and on a socket that
\* is still CONNECTING; otherwise the call is made and recorded.
SendThrows(ws, rs) == ws = 0 \/ rs[ws] = CONNECTING

\* DataGate testing the tracked flag instead of the socket's readyState
DataGateConnectedFlag(ws, rs) == ws # 0 /\ connected

\* DataGate without the readyState test
DataGateNoState(ws, rs) == ws # 0

\* the condition of the terminal.onData handler
DataGate(ws, rs) == ws # 0 /\ rs[ws] = OPEN

\* terminal.onData handler
OnData(d) ==
    /\ Idle
    /\ onDataReg
    /\ nText + nInputs < MaxTraffic
    /\ nInputs' = nInputs + 1
    /\ LET send == DataGate(websocket, readyState)
           throws == send /\ SendThrows(websocket, readyState)
       IN /\ sent' = IF send /\ ~throws
                      THEN Append(sent, [sock |-> websocket, data |-> d])
                      ELSE sent
          /\ lastEvent' = [Event("data", websocket, <<d>>) EXCEPT !.threw = throws]
    /\ UNCHANGED <<endpoint, timers, pc, shellInfo, title, terminal, onDataReg, listeners, themeCtl,
                   display, termTheme, storedTheme, dataTheme, websocket, readyState,
                   opened, inTask, connected, badge, modalOpen, btnHandlers, nText>>

\* the condition of sendKeyboardInterrupt
InterruptGate(ws, rs) == ws # 0 /\ rs[ws] = OPEN

\* sendKeyboardInterrupt sending the control byte twice
InterruptPayloadsTwice == <<ETX, ETX>>

\* the payloads sendKeyboardInterrupt sends when its condition holds
InterruptPayloads == <<ETX>>

\* keydown handler with ctrlKey and key 'c': sendKeyboardInterrupt()
SendKeyboardInterrupt ==
    /\ Idle
    /\ listeners
    /\ nText + nInputs < MaxTraffic
    /\ nInputs' = nInputs + 1
    /\ LET send == InterruptGate(websocket, readyState)
           throws == send /\ SendThrows(websocket, readyState)
       IN /\ sent' = IF send /\ ~throws
                      THEN sent \o [i \in 1..Len(InterruptPayloads) |->
                                      [sock |-> websocket, data |-> InterruptPayloads[i]]]
                      ELSE sent
          /\ lastEvent' = [Event("interrupt", websocket, <<>>) EXCEPT !.threw = throws]
    /\ UNCHANGED <<endpoint, timers, pc, shellInfo, title, terminal, onDataReg, listeners, themeCtl,
                   display, termTheme, storedTheme, dataTheme, websocket, readyState,
                   opened, inTask, connected, badge, modalOpen, btnHandlers, nText>>

\* beforeunload handler: websocket.close() starts the closing handshake of
\* a socket that is connecting or open and does nothing otherwise.
BeforeUnload ==
    /\ Idle
    /\ listeners
    /\ readyState' = IF websocket # 0 /\ readyState[websocket] \in {CONNECTING, OPEN}
                     THEN [readyState EXCEPT ![websocket] = CLOSING]
                     ELSE readyState
    /\ lastEvent' = Event("beforeunload", websocket, <<>>)
    /\ UNCHANGED <<endpoint, timers, pc, shellInfo, title, terminal, onDataReg, listeners, themeCtl,
                   display, termTheme, storedTheme, dataTheme, websocket, opened,
                   inTask, connected, badge, modalOpen, btnHandlers, sent, nInputs,
                   nText>>

\* click listener that leaves the modal open
ReconnectHandlerKeepsModal(st) ==
    LET rs == ConnectWebSocket(st.readyState)
    IN [modalOpen |-> st.modalOpen,
        display |-> Writeln(st.display, ReconnectBanner),
        readyState |-> rs,
        websocket |-> Len(rs)]

\* click listener that keeps the new socket in a local variable and never
\* assigns this.websocket
ReconnectHandlerLocalSocket(st) ==
    [modalOpen |-> FALSE,
     display |-> Writeln(st.display, ReconnectBanner),
     readyState |-> ConnectWebSocket(st.readyState),
     websocket |-> st.websocket]

\* One click listener of the reconnect button: modal.close(), a line on the
\* terminal, connectWebSocket().
ReconnectHandler(st) ==
    LET rs == ConnectWebSocket(st.readyState)
    IN [modalOpen |-> FALSE,
        display |-> Writeln(st.display, ReconnectBanner),
        readyState |-> rs,
        websocket |-> Len(rs)]

\* A click runs every listener registered on the button, in order.
RECURSIVE RunListeners(_, _)
RunListeners(n, st) ==
    IF n = 0 THEN st ELSE RunListeners(n - 1, ReconnectHandler(st))

\* click on the reconnect button, which the user can reach while the modal
\* is shown
ClickReconnect ==
    /\ Idle
    /\ modalOpen
    /\ Len(readyState) < MaxSockets
    /\ LET st == RunListeners(btnHandlers,
                     [modalOpen |-> modalOpen, display |-> display,
                      readyState |-> readyState, websocket |-> websocket])
       IN /\ modalOpen' = st.modalOpen
          /\ display' = st.display
          /\ readyState' = st.readyState
          /\ websocket' = st.websocket
    /\ lastEvent' = Event("click", websocket', <<>>)
    /\ UNCHANGED <<endpoint, timers, pc, shellInfo, title, terminal, onDataReg, listeners, themeCtl,
                   termTheme, storedTheme, dataTheme, opened, inTask, connected,
                   badge, btnHandlers, sent, nInputs, nText>>

SelectThemeNoStore(t) ==
    /\ Idle
    /\ themeCtl
    /\ dataTheme' = t
    /\ termTheme' = IF terminal THEN UpdateTerminalTheme(termTheme, t) ELSE termTheme
    /\ lastEvent' = Event("theme", 0, <<t>>)
    /\ UNCHANGED <<endpoint, timers, pc, shellInfo, title, terminal, onDataReg, listeners, themeCtl,
                   display, websocket, readyState, opened, inTask, connected, badge,
                   modalOpen, btnHandlers, sent, nInputs, nText, storedTheme>>

\* click on a .theme-controller element
SelectTheme(t) ==
    /\ Idle
    /\ themeCtl
    /\ dataTheme' = t
    /\ termTheme' = IF terminal THEN UpdateTerminalTheme(termTheme, t) ELSE termTheme
    /\ storedTheme' = t
    /\ lastEvent' = Event("theme", 0, <<t>>)
    /\ UNCHANGED <<endpoint, timers, pc, shellInfo, title, terminal, onDataReg, listeners, themeCtl,
                   display, websocket, readyState, opened, inTask, connected, badge,
                   modalOpen, btnHandlers, sent, nInputs, nText>>

\* ------------------------------------------------------------------ Next
Next ==
    \/ FetchSettle
    \/ JsonSettle
    \/ SetupTerminal
    \/ InitConnectWebSocket
    \/ SetupEventListeners
    \/ SetupThemeController
    \/ InitUpdateConnectionStatus
    \/ \E s \in Sockets : OnOpen(s)
    \/ \E s \in Sockets : \E n \in 0..(MaxTraffic - nText - nInputs) :
         \E m \in Messages(n) : OnMessage(s, m)
    \/ \E s \in Sockets : ClosingHandshake(s)
    \/ \E s \in Sockets : OnClose(s)
    \/ \E s \in Sockets : OnError(s)
    \/ \E d \in Data : OnData(d)
    \/ SendKeyboardInterrupt
    \/ BeforeUnload
    \/ ClickReconnect

Spec == Init /\ [][Next]_vars

\* The session with every answer of the metadata endpoint
InitStartup == InitWith(Responses, {NULL})
SpecStartup == InitStartup /\ [][Next]_vars

\* The page is loaded again: a new WebTerminal is constructed; of the
\* state only localStorage survives.
Reload ==
    /\ Idle
    /\ pc' = "fetch"
    /\ shellInfo' = UNDEFINED
    /\ title' = InitialTitle
    /\ terminal' = FALSE
    /\ onDataReg' = FALSE
    /\ listeners' = FALSE
    /\ themeCtl' = FALSE
    /\ display' = <<>>
    /\ termTheme' = UNDEFINED
    /\ dataTheme' = NULL
    /\ websocket' = 0
    /\ readyState' = <<>>
    /\ opened' = {}
    /\ connected' = FALSE
    /\ badge' = "initial"
    /\ modalOpen' = FALSE
    /\ btnHandlers' = 0
    /\ sent' = <<>>
    /\ nInputs' = 0
    /\ nText' = 0
    /\ lastEvent' = Event("reload", 0, <<>>)
    /\ timers' = <<>>
    /\ UNCHANGED <<endpoint, storedTheme, inTask>>

\* The session with the theme controller in use, over page loads: what
\* localStorage holds at first is nothing, or a name put there by other
\* means than a controller; a controller's name gets there by a click.
StoredThemes == {NULL} \cup InheritedKeys
InitTheme == InitWith({Json(GoodBody)}, StoredThemes)
NextTheme ==
    \/ FetchSettle
    \/ JsonSettle
    \/ SetupTerminal
    \/ InitConnectWebSocket
    \/ SetupEventListeners
    \/ SetupThemeController
    \/ InitUpdateConnectionStatus
    \/ \E s \in Sockets : OnOpen(s)
    \/ \E s \in Sockets : \E n \in 0..(MaxTraffic - nText - nInputs) :
         \E m \in Messages(n) : OnMessage(s, m)
    \/ \E s \in Sockets : OnClose(s)
    \/ \E s \in Sockets : OnError(s)
    \/ ClickReconnect
    \/ \E t \in ControllerThemes : SelectTheme(t)
    \/ Reload
SpecTheme == InitTheme /\ [][NextTheme]_vars

\* ------------------------------------------------- the auto-retry variant
\* The variant of the class that reconnects by itself: it has no connected
\* flag, no badge, no theme controller and no dialog. fetchShellInfo (for a
\* complete body), setupTerminal, the first connectWebSocket, onmessage,
\* onerror, the input handlers and the beforeunload handler have the same
\* code as above and are the same actions here.

\* the delay given to setTimeout in onclose, in milliseconds
RetryDelay == 3000

AutoRetryClosedBanner == <<CR, LF, LF, "Connection closed. Attempting to reconnect...">>

\* setupEventListeners(), the last statement of init()
AutoRetrySetupEventListeners ==
    /\ pc = "setupEventListeners"
    /\ listeners' = TRUE
    /\ pc' = "ready"
    /\ lastEvent' = Event("init", websocket, <<>>)
    /\ UNCHANGED <<endpoint, timers, shellInfo, title, terminal, onDataReg, themeCtl,
                   display, termTheme, storedTheme, dataTheme, websocket, readyState,
                   opened, inTask, connected, badge, modalOpen, btnHandlers,
                   sent, nInputs, nText>>

\* websocket.onopen
AutoRetryOnOpen(s) ==
    /\ Idle
    /\ readyState[s] = CONNECTING
    /\ readyState' = [readyState EXCEPT ![s] = OPEN]
    /\ opened' = opened \cup {s}
    /\ display' = Writeln(<<>>, ConnectedBanner)
    /\ lastEvent' = Event("open", s, <<>>)
    /\ UNCHANGED <<endpoint, timers, pc, shellInfo, title, terminal, onDataReg, listeners,
                   themeCtl, termTheme, storedTheme, dataTheme, websocket, inTask,
                   connected, badge, modalOpen, btnHandlers, sent, nInputs, nText>>

\* onclose calling setTimeout twice
AutoRetryOnCloseTwice(s) ==
    /\ pc = "ready"
    /\ \/ inTask = s
       \/ inTask = 0 /\ readyState[s] # CLOSED
    /\ readyState' = [readyState EXCEPT ![s] = CLOSED]
    /\ inTask' = 0
    /\ display' = Writeln(display, AutoRetryClosedBanner)
    /\ timers' = Append(Append(timers, RetryDelay), RetryDelay)
    /\ lastEvent' = Event("close", s, <<>>)
    /\ UNCHANGED <<endpoint, pc, shellInfo, title, terminal, onDataReg, listeners, themeCtl,
                   termTheme, storedTheme, dataTheme, websocket, opened, connected,
                   badge, modalOpen, btnHandlers, sent, nInputs, nText>>

\* websocket.onclose, for a close on its own or for the close that follows
\* an error in the same task: a line on the terminal and one setTimeout
AutoRetryOnClose(s) ==
    /\ pc = "ready"
    /\ \/ inTask = s
       \/ inTask = 0 /\ readyState[s] # CLOSED
    /\ readyState' = [readyState EXCEPT ![s] = CLOSED]
    /\ inTask' = 0
    /\ display' = Writeln(display, AutoRetryClosedBanner)
    /\ timers' = Append(timers, RetryDelay)
    /\ lastEvent' = Event("close", s, <<>>)
    /\ UNCHANGED <<endpoint, pc, shellInfo, title, terminal, onDataReg, listeners, themeCtl,
                   termTheme, storedTheme, dataTheme, websocket, opened, connected,
                   badge, modalOpen, btnHandlers, sent, nInputs, nText>>

\* The callback given to setTimeout runs: connectWebSocket()
RetryTimerFires ==
    /\ Idle
    /\ timers # <<>>
    /\ Len(readyState) < MaxSockets
    /\ timers' = Tail(timers)
    /\ readyState' = ConnectWebSocket(readyState)
    /\ websocket' = Len(readyState')
    /\ lastEvent' = Event("timer", websocket', <<>>)
    /\ UNCHANGED <<endpoint, pc, shellInfo, title, terminal, onDataReg, listeners, themeCtl,
                   display, termTheme, storedTheme, dataTheme, opened, inTask, connected,
                   badge, modalOpen, btnHandlers, sent, nInputs, nText>>

NextAutoRetry ==
    \/ FetchSettle
    \/ JsonSettle
    \/ SetupTerminal
    \/ InitConnectWebSocket
    \/ AutoRetrySetupEventListeners
    \/ \E s \in Sockets : AutoRetryOnOpen(s)
    \/ \E s \in Sockets : \E n \in 0..(MaxTraffic - nText - nInputs) :
         \E m \in Messages(n) : OnMessage(s, m)
    \/ \E s \in Sockets : ClosingHandshake(s)
    \/ \E s \in Sockets : AutoRetryOnClose(s)
    \/ \E s \in Sockets : OnError(s)
    \/ \E d \in Data : OnData(d)
    \/ SendKeyboardInterrupt
    \/ BeforeUnload
    \/ RetryTimerFires

\* The event loop runs every task that is ready: the close event of a
\* failed socket and the callback of a timer that is due.
FairAutoRetry ==
    /\ WF_vars(RetryTimerFires)
    /\ WF_vars(\E s \in Sockets : inTask = s /\ AutoRetryOnClose(s))

SpecAutoRetry == Init /\ [][NextAutoRetry]_vars /\ FairAutoRetry

TypeOK ==
    /\ pc \in {"fetch", "json", "setupTerminal", "connectWebSocket",
               "setupEventListeners", "setupThemeController",
               "updateConnectionStatus", "ready", "aborted"}
    /\ websocket \in 0..Len(readyState)
    /\ \A s \in Sockets : readyState[s] \in {CONNECTING, OPEN, CLOSING, CLOSED}
    /\ connected \in BOOLEAN
    /\ badge \in {"initial", "Connected", "Disconnected"}
    /\ timers \in Seq({RetryDelay})
    /\ Len(timers) <= MaxSockets

\* ================================================================ claims

\* C1: an input event makes a send only when a current transport exists
\* and is OPEN, and then exactly one, of the typed data, on that transport;
\* with no transport, or one that is CONNECTING, CLOSING or CLOSED, nothing
\* is sent on any transport and the handler does not throw.
C1_InputSendsOnlyWhenOpen ==
    [][lastEvent'.ev = "data" =>
         /\ ~lastEvent'.threw
         /\ IF websocket # 0 /\ readyState[websocket] = OPEN
            THEN sent' = Append(sent, [sock |-> websocket, data |-> lastEvent'.data[1]])
            ELSE sent' = sent]_vars

\* an input typed while the first transport is still connecting was dropped
C1_Witness ==
    /\ lastEvent.ev = "data"
    /\ websocket = 1
    /\ readyState[websocket] = CONNECTING
    /\ sent = <<>>

\* C2: the text an inbound message adds to the display is the message with
\* every line feed replaced by carriage return + line feed and every other
\* character kept, in order; \r\n is displayed as \r\r\n, and hello\n
\* leaves the display ending with hello\r\n.
LFsBefore(m, i) == Cardinality({j \in 1..(i - 1) : m[j] = LF})

IsLFRewrite(m, out) ==
    /\ Len(out) = Len(m) + LFsBefore(m, Len(m) + 1)
    /\ \A i \in 1..Len(m) :
         LET p == i + LFsBefore(m, i)
         IN IF m[i] = LF THEN out[p] = CR /\ out[p + 1] = LF
                         ELSE out[p] = m[i]

C2_MessageDisplayedWithCRLF ==
    [][lastEvent'.ev = "message" =>
         /\ Len(display') >= Len(display)
         /\ SubSeq(display', 1, Len(display)) = display
         /\ LET m == lastEvent'.data
                out == SubSeq(display', Len(display) + 1, Len(display'))
            IN /\ IsLFRewrite(m, out)
               /\ m = <<CR, LF>> => out = <<CR, CR, LF>>
               /\ m = Hello => out = <<"hello", CR, LF>>]_vars

\* open, then the message hello\n
C2_Witness ==
    /\ lastEvent.ev = "message"
    /\ lastEvent.data = Hello
    /\ display = <<"Connected to terminal server", CR, LF, "hello", CR, LF>>

\* C3: a close event marks the session disconnected, sets the status
\* indicator to Disconnected and shows the reconnect dialog, and nothing
\* retries on its own: a step creates a transport only when it is the
\* startup's connectWebSocket() or a click on the reconnect button.
C3_CloseShowsDialogNoAutoRetry ==
    [][/\ lastEvent'.ev = "close" =>
            /\ ~connected'
            /\ badge' = "Disconnected"
            /\ modalOpen'
            /\ readyState'[lastEvent'.sock] = CLOSED
       /\ Len(readyState') # Len(readyState) =>
            \/ pc = "connectWebSocket"
            \/ lastEvent'.ev = "click" /\ modalOpen]_vars

\* a transport that had been open closed, and no other transport exists
C3_Witness ==
    /\ lastEvent.ev = "close"
    /\ lastEvent.sock \in opened
    /\ Len(readyState) = 1
    /\ modalOpen
    /\ badge = "Disconnected"

\* C4: after a close, a click on reconnect and the open event of the new
\* transport, the session is Open again (the flag is set, the indicator
\* shows Connected, the transport that opened is the current one and is
\* OPEN); the same after further cycles, also when an attempt in between
\* closed without ever opening.
C4_ReconnectReturnsToOpen ==
    (lastEvent.ev = "open" /\ lastEvent.sock > 1) =>
        /\ connected
        /\ badge = "Connected"
        /\ websocket = lastEvent.sock
        /\ readyState[websocket] = OPEN
        /\ ~modalOpen

\* the third transport opened after the second one closed without opening
C4_Witness ==
    /\ lastEvent.ev = "open"
    /\ lastEvent.sock = 3
    /\ 1 \in opened
    /\ 2 \notin opened
    /\ readyState[2] = CLOSED

\* C5: the reconnect button in the page never carries more than one click
\* listener, and one click on it creates exactly one transport.
C5_OneReconnectHandler ==
    /\ [](btnHandlers <= 1)
    /\ [][lastEvent'.ev = "click" => Len(readyState') = Len(readyState) + 1]_vars

\* a second reconnect click, after two close events
C5_Witness ==
    /\ lastEvent.ev = "click"
    /\ Len(readyState) = 3
    /\ btnHandlers = 1

\* C6: nothing is buffered across a disconnect. The send log grows only in
\* an input step taken while the current transport is OPEN, by exactly
\* the payload of that input on that transport; an input taken in any
\* other state leaves the log as it is, and no other step (open, close,
\* click on reconnect, ...) ever adds to it. Hence the payloads sent on a
\* transport are the inputs made while it was current and OPEN, once each
\* and in order.
InputStep == nInputs' = nInputs + 1
InputPayload == IF lastEvent'.ev = "data" THEN lastEvent'.data[1] ELSE ETX

C6_NoBufferingAcrossDisconnect ==
    [][IF InputStep /\ websocket # 0 /\ readyState[websocket] = OPEN
       THEN sent' = Append(sent, [sock |-> websocket, data |-> InputPayload])
       ELSE sent' = sent]_vars

\* one input was lost while disconnected, and the next one, typed after
\* the reconnect, is the only payload the second transport carries
C6_Witness ==
    /\ nInputs = 2
    /\ lastEvent.ev = "data"
    /\ websocket = 2
    /\ readyState[2] = OPEN
    /\ sent = <<[sock |-> 2, data |-> lastEvent.data[1]]>>

\* C7: an invocation of sendKeyboardInterrupt sends one message, the
\* control byte, on the current transport when that transport is OPEN, and
\* sends nothing when there is no transport or it is not OPEN; in both
\* cases it changes nothing else.
sessionVars == <<pc, shellInfo, title, terminal, onDataReg, listeners, themeCtl,
                 display, termTheme, storedTheme, dataTheme, websocket, readyState,
                 connected, badge, modalOpen, btnHandlers, timers>>

C7_InterruptSendsOneETX ==
    [][lastEvent'.ev = "interrupt" =>
         /\ ~lastEvent'.threw
         /\ UNCHANGED sessionVars
         /\ IF websocket # 0 /\ readyState[websocket] = OPEN
            THEN sent' = Append(sent, [sock |-> websocket, data |-> ETX])
            ELSE sent' = sent]_vars

\* an interrupt on an open transport
C7_Witness ==
    /\ lastEvent.ev = "interrupt"
    /\ readyState[websocket] = OPEN
    /\ sent = <<[sock |-> websocket, data |-> ETX]>>

\* C8: at most one transport is not CLOSED, it is the current one, and a
\* step that creates a transport starts from a state in which every
\* transport created before is CLOSED.
C8_AtMostOneLiveTransport ==
    /\ [](Cardinality({s \in Sockets : readyState[s] # CLOSED}) <= 1)
    /\ [](\A s \in Sockets : readyState[s] # CLOSED => s = websocket)
    /\ [][Len(readyState') > Len(readyState) =>
            \A s \in Sockets : readyState[s] = CLOSED]_vars

\* after a reconnect the new transport is open and the old one is closed
C8_Witness ==
    /\ Len(readyState) = 2
    /\ readyState[1] = CLOSED
    /\ readyState[2] = OPEN
    /\ websocket = 2

\* C9 as stated: once the error handler has run, the session is marked
\* disconnected and the status indicator shows Disconnected.
C9_ErrorMarksClosed ==
    lastEvent.ev = "error" => (~connected /\ badge = "Disconnected")

\* C9, amended: the error handler only reports the error, by one line on
\* the display; it leaves the connected flag and the status indicator as
\* they were and tears nothing down (terminal, theme, shell info, handlers).
\* The flag is cleared and the indicator set to Disconnected by the close
\* handler of the same transport, which is the next handler to run.
keptOnError == <<pc, shellInfo, title, terminal, onDataReg, listeners, themeCtl,
                 termTheme, storedTheme, dataTheme, websocket, sent, timers>>

C9_ErrorOnlyReportsCloseMarksClosed ==
    [][/\ lastEvent'.ev = "error" =>
            /\ connected' = connected
            /\ badge' = badge
            /\ modalOpen' = modalOpen
            /\ display' = display \o ErrorBanner \o <<CR, LF>>
            /\ UNCHANGED keptOnError
       /\ lastEvent.ev = "error" =>
            /\ lastEvent'.ev = "close"
            /\ lastEvent'.sock = lastEvent.sock
            /\ ~connected'
            /\ badge' = "Disconnected"
            /\ UNCHANGED keptOnError]_vars

\* the error handler has run for a transport that was open: the flag and
\* the indicator still say connected
C9_Witness ==
    /\ lastEvent.ev = "error"
    /\ lastEvent.sock \in opened
    /\ connected
    /\ badge = "Connected"
    /\ terminal

\* C10: when the metadata request fails (fetch rejects, the body does not
\* parse, or applying the body throws), shellInfo is the default bash -i
\* description from then on, init is not aborted, and init ends in the
\* state it ends in after a successful request: terminal created with its
\* input handler and the two greeting lines, one transport, connecting,
\* listeners and theme controller registered, indicator Disconnected.
FetchFails == endpoint \in Responses \ {Json(GoodBody)}

C10_FetchFailureFallsBackAndStarts ==
    FetchFails =>
        /\ pc # "aborted"
        /\ pc \notin {"fetch", "json"} =>
             /\ {"shell", "args"} \subseteq DOMAIN shellInfo
             /\ shellInfo.shell = "bash"
             /\ shellInfo.args = <<"-i">>
        /\ lastEvent.ev = "init" =>
             /\ pc = "ready"
             /\ terminal /\ onDataReg /\ listeners /\ themeCtl
             /\ display = <<"Welcome to Web Terminal", CR, LF,
                            "Connecting to server...", CR, LF>>
             /\ websocket = 1
             /\ readyState = <<CONNECTING>>
             /\ ~connected
             /\ badge = "Disconnected"
             /\ termTheme.background = "#1f2937"
             /\ sent = <<>>

\* the body had no args: applying it threw, and the session is running
\* with the default description
C10_Witness ==
    /\ endpoint = Json(NoArgsBody)
    /\ shellInfo = DefaultShellInfo
    /\ pc = "ready"
    /\ 1 \in opened
    /\ Len(sent) > 0

\* C11: startup ordering. While the metadata request has not settled there
\* is no terminal and no transport; startup opens exactly one transport,
\* and a transport exists only once the terminal and its input handler do.
FetchPending == pc \in {"fetch", "json"}
InStartup == pc # "ready"

C11_StartupOrdering ==
    /\ FetchPending =>
         /\ ~terminal /\ ~onDataReg
         /\ readyState = <<>> /\ websocket = 0
         /\ shellInfo = UNDEFINED
    /\ ~FetchPending => shellInfo # UNDEFINED
    /\ readyState # <<>> => terminal /\ onDataReg
    /\ InStartup => Len(readyState) <= 1
    /\ lastEvent.ev = "init" =>
         /\ Len(readyState) = 1
         /\ websocket = 1
         /\ terminal /\ onDataReg

\* init has just finished after a request that failed
C11_Witness ==
    /\ lastEvent.ev = "init"
    /\ pc = "ready"
    /\ endpoint = Unparsable
    /\ readyState = <<CONNECTING>>

\* ------------------------------------------------------------------ C12
\* What the theme named n is to put on the widget: its own three colors
\* for a known name, the dark ones for any other name.
ColorsFor(n) == IF n \in KnownThemes THEN themes[n] ELSE themes["dark"]

\* The widget theme after a theme named n was applied: the three colors
\* of ColorsFor(n), every other color as the terminal was set up with.
ThemeApplied(n) ==
    termTheme = [InitialTermTheme EXCEPT !.background = ColorsFor(n).background,
                                         !.foreground = ColorsFor(n).foreground,
                                         !.cursor = ColorsFor(n).cursor]

\* C12: once a theme name has been applied (at startup from the stored
\* preference or by a click), the widget shows that theme's three colors if
\* the name is known and the dark ones if it is not, every other widget
\* color is as before, and the handler that applied it did not throw.
C12_SetThemeFallsBackToDark ==
    /\ themeCtl /\ terminal => ThemeApplied(dataTheme)
    /\ lastEvent.ev = "theme" => ~lastEvent.threw

\* C12, for the names that are not inherited keys of the themes object
C12_SetThemeOrdinaryNames ==
    /\ themeCtl /\ terminal /\ dataTheme \notin InheritedKeys => ThemeApplied(dataTheme)
    /\ lastEvent.ev = "theme" => ~lastEvent.threw

\* An inherited key was applied at startup: the three colors are undefined
C12_InheritedKeyApplied ==
    /\ themeCtl /\ terminal
    /\ dataTheme \in InheritedKeys
    /\ termTheme.background = NoColor

\* ------------------------------------------------------------------ C13
\* The name startup applies for what localStorage holds
SavedName == IF storedTheme = NULL THEN "dark" ELSE storedTheme

ConnectionEvents == {"open", "message", "close", "error", "click"}

themeVars == <<storedTheme, termTheme, dataTheme>>

\* C13: right after a selection of T the stored preference is T; whenever
\* the theme controller is set up, by this page load or by a later one, the
\* widget has the colors that applying the stored name gives (those of
\* "dark" when nothing is stored), so a later startup shows what the
\* selection showed; and no open, message, close, error or reconnect step
\* changes the stored preference or the applied theme.
C13_ThemeRoundTrip ==
    /\ [](lastEvent.ev = "theme" => storedTheme = lastEvent.data[1])
    /\ [](themeCtl /\ terminal =>
            /\ dataTheme = SavedName
            /\ termTheme = UpdateTerminalTheme(InitialTermTheme, SavedName))
    /\ [](themeCtl /\ terminal /\ storedTheme = NULL => ThemeApplied("dark"))
    /\ [][lastEvent'.ev \in ConnectionEvents => UNCHANGED themeVars]_vars

\* A theme selected in an earlier page load was read back by the startup
\* of this one, which applied its colors
C13_Witness ==
    /\ pc = "updateConnectionStatus"
    /\ themeCtl /\ terminal
    /\ storedTheme = "synthwave"
    /\ termTheme.background = themes["synthwave"].background

\* ------------------------------------------------------------------ C14
\* C14: right after the open handler of any transport, the first or a
\* later one, the display holds the connected line and nothing from before
\* it, the session is marked connected and the indicator shows Connected.
C14_OpenClearsAndMarksConnected ==
    lastEvent.ev = "open" =>
        /\ display = Writeln(<<>>, ConnectedBanner)
        /\ connected
        /\ badge = "Connected"

\* The transport of a reconnection has opened
C14_Witness ==
    /\ lastEvent.ev = "open"
    /\ lastEvent.sock = 2
    /\ websocket = 2
    /\ readyState = <<CLOSED, OPEN>>

\* ------------------------------------------------------------------ C15
\* transports that are not CLOSED
NonClosed == {s \in Sockets : readyState[s] # CLOSED}

\* C15 (auto-retry variant): every close handler adds exactly one timer, of
\* 3000 ms, and nothing else adds one; a timer creates one transport when it
\* fires, with no user action; there are never more non-closed transports and
\* pending timers together than one; and, with the event loop running the
\* tasks that are ready, every closed transport is eventually followed by a
\* newly created one (for as many transports as the model allows).
C15_AutoRetrySchedulesOneReconnect ==
    /\ [](Cardinality(NonClosed) + Len(timers) <= 1)
    /\ [][/\ lastEvent'.ev = "close" => timers' = Append(timers, RetryDelay)
          /\ timers' # timers /\ lastEvent'.ev # "close" =>
               /\ lastEvent'.ev = "timer"
               /\ timers' = Tail(timers)
               /\ readyState' = Append(readyState, CONNECTING)]_vars
    /\ \A k \in 1..(MaxSockets - 1) :
         (k \in Sockets /\ readyState[k] = CLOSED) ~> (Len(readyState) > k)

\* The timer set by the close of the first transport has fired and made
\* the second one
C15_Witness ==
    /\ lastEvent.ev = "timer"
    /\ readyState = <<CLOSED, CONNECTING>>
    /\ websocket = 2
    /\ timers = <<>>

\* ------------------------------------------------------------------ C16
\* the close handler of transport s has run
CloseDelivered(s) == readyState[s] = CLOSED /\ inTask # s

\* C16: once init() has finished, the badge shows Connected exactly when
\* the connected flag is true; the flag is true exactly when the current
\* transport has had its open handler run and not yet its close handler;
\* and while the current transport is CONNECTING, the first one or one made
\* by the reconnect button, the badge shows Disconnected.
C16_BadgeFollowsFlagFollowsTransport ==
    pc = "ready" =>
        /\ badge = "Connected" <=> connected
        /\ badge \in {"Connected", "Disconnected"}
        /\ connected <=> (websocket \in opened /\ ~CloseDelivered(websocket))
        /\ readyState[websocket] = CONNECTING => badge = "Disconnected"

\* After a session that was open and closed, the transport made by the
\* reconnect button is still connecting
C16_Witness ==
    /\ pc = "ready"
    /\ lastEvent.ev = "click"
    /\ websocket = 2
    /\ 1 \in opened
    /\ readyState[2] = CONNECTING
    /\ badge = "Disconnected"

\* ------------------------------------------------------------------ C17
\* what the input handlers test before sending
WouldSend == websocket # 0 /\ readyState[websocket] = OPEN

\* C17 as stated: once init() has finished, the badge shows Connected if
\* and only if an input event would be sent, the connected flag being true
\* exactly when the current transport is OPEN.
C17_ConnectedIffWouldSend ==
    pc = "ready" =>
        /\ badge = "Connected" <=> WouldSend
        /\ connected <=> WouldSend

\* C17 (amended): once init() has finished, whenever an input event would
\* be sent the flag is true and the badge shows Connected; and when the
\* flag is true the current transport is OPEN, or CLOSING (close() was
\* called on unload, or the closing handshake has started), or has failed
\* with its close handler still to run. In the last two cases the badge
\* shows Connected although input is dropped.
C17_WouldSendImpliesConnected ==
    pc = "ready" =>
        /\ badge = "Connected" <=> connected
        /\ WouldSend => connected
        /\ connected =>
             \/ readyState[websocket] \in {OPEN, CLOSING}
             \/ readyState[websocket] = CLOSED /\ inTask = websocket

\* close() was called on unload and the close event has not arrived: the
\* badge shows Connected and input is no longer sent
C17_Witness ==
    /\ lastEvent.ev = "beforeunload"
    /\ readyState[websocket] = CLOSING
    /\ connected
    /\ badge = "Connected"
    /\ ~WouldSend

====
